---- MODULE Spec2Model ----
(***************************************************************************)
(* RTDETRPredictor (ultralytics/models/rtdetr/predict.py): postprocess and *)
(* pre_transform.                                                          *)
(*                                                                         *)
(* Tensors are sequences: a prediction tensor of shape (N, Q, nd) is a     *)
(* sequence of N images, each a sequence of Q query rows, each a sequence  *)
(* of nd numbers <<x, y, w, h, s_0, ..., s_{nd-5}>>.  Indices are 1-based  *)
(* in the sequences; class indices keep the code's 0-based numbering.      *)
(* Numbers are fixed-point integers: the normalised coordinates and the    *)
(* scores are counted in a fixed fraction of 1.  The boxes drawn have even *)
(* widths and heights, so that w / 2 is exact.                             *)
(***************************************************************************)
EXTENDS Integers, Sequences, FiniteSets, TLC

\* Python's None and a value that is not None, as sequences of length 0 and 1
None == <<>>
Some(x) == <<x>>

(***************************************************************************)
(* Sequence helpers standing for the tensor library's primitives.          *)
(***************************************************************************)
Range(s) == {s[k] : k \in DOMAIN s}

\* s[:n] of Python for n >= 0
Take(s, n) == SubSeq(s, 1, IF n < Len(s) THEN n ELSE Len(s))

\* t[mask]: the rows of t whose mask entry is TRUE, in order
RECURSIVE MaskSelect(_, _)
MaskSelect(t, mask) ==
    IF t = <<>> THEN <<>>
    ELSE LET rest == MaskSelect(Tail(t), Tail(mask))
         IN IF Head(mask) THEN <<Head(t)>> \o rest ELSE rest

\* t[index]: the rows of t at the (1-based) positions index, in that order
Gather(t, index) == [k \in 1..Len(index) |-> t[index[k]]]

\* preds[0].shape[-1]
nd_of(T) == Len(T[1][1])

\* Mutant: the score block taken from column 3 on, the height counted as a score
split_score_from4(T) ==
    [i \in 1..Len(T) |-> [q \in 1..Len(T[i]) |-> SubSeq(T[i][q], 4, Len(T[i][q]))]]

\* tensor.split((4, nd - 4), dim=-1): the two column blocks of every row
split_box(T) == [i \in 1..Len(T) |-> [q \in 1..Len(T[i]) |-> SubSeq(T[i][q], 1, 4)]]
split_score(T) ==
    [i \in 1..Len(T) |-> [q \in 1..Len(T[i]) |-> SubSeq(T[i][q], 5, 4 + (nd_of(T) - 4))]]

\* ops.xywh2xyxy: (centre x, centre y, width, height) -> (x1, y1, x2, y2)
xywh2xyxy(bbox) ==
    [q \in 1..Len(bbox) |->
        <<bbox[q][1] - bbox[q][3] \div 2, bbox[q][2] - bbox[q][4] \div 2,
          bbox[q][1] + bbox[q][3] \div 2, bbox[q][2] + bbox[q][4] \div 2>>]

\* The largest entry of a non-empty score row
RowMax(row) == CHOOSE m \in Range(row) : \A v \in Range(row) : v <= m

\* The 0-based index score.max(-1) reports for a row: an index of the maximum.
\* Which one on a tie is the tensor library's choice (tie = "first" | "last").
RowArgMax(row, tie) ==
    LET at == {k \in DOMAIN row : row[k] = RowMax(row)}
        k == IF tie = "first" THEN CHOOSE a \in at : \A b \in at : a <= b
                              ELSE CHOOSE a \in at : \A b \in at : a >= b
    IN k - 1

\* max_score, cls = score.max(-1, keepdim=True), as two (Q,) columns
max_score_of(score) == [q \in 1..Len(score) |-> RowMax(score[q])]
cls_of(score, tie) == [q \in 1..Len(score) |-> RowArgMax(score[q], tie)]

\* Mutant: >= in place of >
conf_idx_ge(max_score, conf) == [q \in 1..Len(max_score) |-> max_score[q] >= conf]

\* idx = max_score.squeeze(-1) > self.args.conf
conf_idx(max_score, conf) == [q \in 1..Len(max_score) |-> max_score[q] > conf]

\* Mutant: | in place of &
class_idx_or(cls, classes, idx) ==
    IF classes = None THEN idx
    ELSE [q \in 1..Len(cls) |->
            (\E k \in DOMAIN classes[1] : cls[q] = classes[1][k]) \/ idx[q]]

\* (cls == torch.tensor(classes)).any(1) & idx, applied when classes is not None
class_idx(cls, classes, idx) ==
    IF classes = None THEN idx
    ELSE [q \in 1..Len(cls) |->
            (\E k \in DOMAIN classes[1] : cls[q] = classes[1][k]) /\ idx[q]]

\* torch.cat([bbox, max_score, cls], dim=-1)[idx]: rows of 6, filtered (a new tensor)
cat_filter(bbox, max_score, cls, idx) ==
    MaskSelect([q \in 1..Len(bbox) |-> bbox[q] \o <<max_score[q], cls[q]>>], idx)

\* v.argsort(descending=True): the positions of v in non-increasing order of value.
\* The order of equal values is the tensor library's choice: by position
\* ascending (tie = "first") or descending (tie = "last").
Before(v, a, b, tie) ==
    \/ v[a] > v[b]
    \/ v[a] = v[b] /\ (IF tie = "first" THEN a < b ELSE a > b)
RECURSIVE ArgsortFrom(_, _, _)
ArgsortFrom(v, left, tie) ==
    IF left = {} THEN <<>>
    ELSE LET a == CHOOSE x \in left : \A y \in left \ {x} : Before(v, x, y, tie)
         IN <<a>> \o ArgsortFrom(v, left \ {a}, tie)
argsort_desc(v, tie) == ArgsortFrom(v, DOMAIN v, tie)

\* Mutant: one row too many kept
sort_truncate_plus1(pred, max_det, tie) ==
    Take(Gather(pred, argsort_desc([k \in 1..Len(pred) |-> pred[k][5]], tie)), max_det + 1)

\* Mutant: truncated first, sorted afterwards
sort_truncate_before(pred, max_det, tie) ==
    LET cut == Take(pred, max_det)
    IN Gather(cut, argsort_desc([k \in 1..Len(cut) |-> cut[k][5]], tie))

\* pred[pred[:, 4].argsort(descending=True)][: max_det]
sort_truncate(pred, max_det, tie) ==
    Take(Gather(pred, argsort_desc([k \in 1..Len(pred) |-> pred[k][5]], tie)), max_det)

\* Mutant: width and height exchanged
scale_boxes_swapped(pred, oh, ow) ==
    [k \in 1..Len(pred) |->
        <<pred[k][1] * oh, pred[k][2] * ow, pred[k][3] * oh, pred[k][4] * ow,
          pred[k][5], pred[k][6]>>]

\* pred[..., [0, 2]] *= ow ; pred[..., [1, 3]] *= oh
scale_boxes(pred, oh, ow) ==
    [k \in 1..Len(pred) |->
        <<pred[k][1] * ow, pred[k][2] * oh, pred[k][3] * ow, pred[k][4] * oh,
          pred[k][5], pred[k][6]>>]

(***************************************************************************)
(* Objects built by code of the repository outside this file.              *)
(***************************************************************************)
\* An image: its pixel data is identified by id; shape is .shape
Image(id, layout, dtype, shape) == [id |-> id, layout |-> layout, dtype |-> dtype, shape |-> shape]

\* ops.convert_torch2numpy_batch: (N, C, H, W) float tensor -> N arrays (H, W, C) uint8
convert_torch2numpy_batch(batch) ==
    [k \in 1..Len(batch) |->
        Image(batch[k].id, "HWC", "uint8",
              <<batch[k].shape[2], batch[k].shape[3], batch[k].shape[1]>>)]

\* Results(orig_img, path=..., names=..., boxes=...)
Results(orig_img, path, names, boxes) ==
    [orig_img |-> orig_img, path |-> path, names |-> names, boxes |-> boxes]

\* round(p / q) of Python for p >= 0, q > 0: to nearest, halves to even
RoundDiv(p, q) ==
    LET f == p \div q
        r2 == 2 * (p % q)
    IN IF r2 < q THEN f
       ELSE IF r2 > q THEN f + 1
       ELSE IF f % 2 = 0 THEN f ELSE f + 1

Stride == 32

\* LetterBox(new_shape, auto=..., scale_fill=...)(image=x) with the defaults
\* scaleup=True, center=True, stride=32: the output image records the source
\* pixels (id), its shape, the size (w, h) the source was resized to and the
\* border (top, bottom, left, right) added around it.
LetterBox(new_shape, auto, scale_fill, x) ==
    LET ns == <<new_shape, new_shape>>  \* new_shape is an int: imgsz (int), line 19
        h == x.shape[1]
        w == x.shape[2]
        \* r = min(ns[0] / h, ns[1] / w), kept as the fraction rn / rd
        byH == ns[1] * w <= ns[2] * h
        rn == IF byH THEN ns[1] ELSE ns[2]
        rd == IF byH THEN h ELSE w
        unpad0 == <<RoundDiv(w * rn, rd), RoundDiv(h * rn, rd)>>
        dw0 == ns[2] - unpad0[1]
        dh0 == ns[1] - unpad0[2]
        dw == IF auto THEN dw0 % Stride ELSE IF scale_fill THEN 0 ELSE dw0
        dh == IF auto THEN dh0 % Stride ELSE IF scale_fill THEN 0 ELSE dh0
        unpad == IF ~auto /\ scale_fill THEN <<ns[2], ns[1]>> ELSE unpad0
        top == dh \div 2
        bottom == dh - dh \div 2
        left == dw \div 2
        right == dw - dw \div 2
    IN [id |-> x.id, layout |-> x.layout, dtype |-> x.dtype,
        shape |-> <<unpad[2] + top + bottom, unpad[1] + left + right, x.shape[3]>>,
        resized |-> unpad,
        border |-> <<top, bottom, left, right>>]

\* Mutant: letterboxed without scale_fill, the image padded
pre_transform_pad(imgsz, im) == [k \in 1..Len(im) |-> LetterBox(imgsz, FALSE, FALSE, im[k])]

(***************************************************************************)
(* RTDETRPredictor.pre_transform                                           *)
(***************************************************************************)
pre_transform(imgsz, im) == [k \in 1..Len(im) |-> LetterBox(imgsz, FALSE, TRUE, im[k])]

(***************************************************************************)
(* RTDETRPredictor.postprocess, the body of the loop for one image         *)
(***************************************************************************)
image_pred(bbox, score, orig_img, args, build) ==
    LET xyxy == xywh2xyxy(bbox)
        max_score == max_score_of(score)
        cls == cls_of(score, build.max)
        idx == class_idx(cls, args.classes, conf_idx(max_score, args.conf))
        pred == sort_truncate(cat_filter(xyxy, max_score, cls, idx), args.max_det, build.sort)
        oh == orig_img.shape[1]
        ow == orig_img.shape[2]
    IN scale_boxes(pred, oh, ow)

\* len(zip(a, b, c, d))
Min2(a, b) == IF a <= b THEN a ELSE b
zip_len(a, b, c, d) == Min2(Min2(Len(a), Len(b)), Min2(Len(c), Len(d)))

(***************************************************************************)
(* Bounds of the model and the input sets drawn from.                      *)
(***************************************************************************)
MaxImages == 2
NumQueries == 2
NumClasses == 2
MaxDet == 2

ScoreVals == {0, 1, 2}
HighScoreVals == {1, 2}
ConfVals == {0, 1}
ShapeVals == {<<2, 3, 3>>, <<3, 2, 3>>}
ImgszVals == {4, 5}
BoxVals == <<<<4, 6, 2, 4>>, <<6, 4, 4, 2>>>>
TieVals == {"first", "last"}

Classes == 0..(NumClasses - 1)

\* The sequence of the elements of a set of integers, ascending
RECURSIVE SortedSeq(_)
SortedSeq(S) ==
    IF S = {} THEN <<>>
    ELSE LET m == CHOOSE x \in S : \A y \in S : x <= y
         IN <<m>> \o SortedSeq(S \ {m})

\* args.classes: None or a list of class indices
ClassFilters == {None} \cup {Some(SortedSeq(S)) : S \in (SUBSET Classes) \ {{}}}

\* Score rows: one class at a score m and the others at a common score o <= m
\* (for two classes, every row over ScoreVals)
ScoreRows ==
    {[c \in 1..NumClasses |-> IF c = p THEN m ELSE o] :
        <<p, m, o>> \in {t \in (1..NumClasses) \X ScoreVals \X ScoreVals : t[3] <= t[2]}}
\* Every score row over HighScoreVals
HighScoreRows == [1..NumClasses -> HighScoreVals]
\* the box of query q of image k when boxes are not what is varied
BoxOf(k, q) == <<2 * (k + q), 2 * q + 2, 2 * k, 2 * q>>
\* The box lists of an image when boxes are varied: the boxes of BoxVals in turn,
\* starting from either
BoxLists == {[q \in 1..NumQueries |-> BoxVals[((q + b) % 2) + 1]] : b \in {0, 1}}
DefaultShape(k) == <<k + 1, 4 - k, 3>>

(***************************************************************************)
(* State.                                                                  *)
(*   self        the predictor: args (conf, classes, max_det), batch       *)
(*               (batch[0] is the list of paths), imgsz, model.names       *)
(*   im          the images given to pre_transform                         *)
(*   preds       the model output given to postprocess                     *)
(*   orig_imgs   the original images given to postprocess                  *)
(*   build       how the tensor library orders equal values                *)
(*   pc, i, bboxes, scores, imgs, results   the locals of postprocess      *)
(*   transformed the list pre_transform returned                           *)
(*   prev        the list an earlier call of postprocess returned          *)
(***************************************************************************)
VARIABLES self, im, preds, orig_imgs, build, pc, i, bboxes, scores, imgs, results,
          transformed, prev

vars == <<self, im, preds, orig_imgs, build, pc, i, bboxes, scores, imgs, results,
          transformed, prev>>

\* The prediction tensor of N images with the score rows S and the boxes B
MkTensor(N, S, B) == [k \in 1..N |-> [q \in 1..NumQueries |-> B[k][q] \o S[k][q]]]

DefaultBoxes(N) == [k \in 1..N |-> [q \in 1..NumQueries |-> BoxOf(k, q)]]
DefaultScores(N) ==
    [k \in 1..N |->
        [q \in 1..NumQueries |-> [c \in 1..NumClasses |-> ((q + c) % 2) + ((k - 1) % 2)]]]
DefaultBuild == [max |-> "first", sort |-> "first"]

\* A second tensor of the same shape, returned by the model beside the predictions
ExtraOf(T) == [k \in 1..Len(T) |-> [q \in 1..Len(T[k]) |-> T[Len(T) + 1 - k][Len(T[k]) + 1 - q]]]

\* The forms the model output is passed in
Forms == {"Tensor", "list", "tuple"}
Wrap(form, T) ==
    CASE form = "Tensor" -> [type |-> "Tensor", v |-> T]
      [] form = "list" -> [type |-> "list", v |-> <<T, None>>]
      [] form = "tuple" -> [type |-> "tuple", v |-> <<T, ExtraOf(T)>>]

\* The same pictures as a list of (H, W, C) arrays and as an (N, C, H, W) tensor
ImageList(shapes) == [k \in 1..Len(shapes) |-> Image(k, "HWC", "uint8", shapes[k])]
ImageTensor(shapes) ==
    [k \in 1..Len(shapes) |->
        Image(k, "CHW", "float", <<shapes[k][3], shapes[k][1], shapes[k][2]>>)]
Paths(n) == [k \in 1..n |-> k + 10]
Names == [c \in Classes |-> c + 100]

InitWith(T, shapes, npaths, conf, classes, max_det, bld, form, otype, imgsz) ==
    /\ self = [args |-> [conf |-> conf, classes |-> classes, max_det |-> max_det],
               batch |-> <<Paths(npaths)>>, imgsz |-> imgsz, model |-> [names |-> Names]]
    /\ im = ImageList(shapes)
    /\ preds = Wrap(form, T)
    /\ orig_imgs = IF otype = "list" THEN [type |-> "list", v |-> ImageList(shapes)]
                   ELSE [type |-> "Tensor", v |-> ImageTensor(shapes)]
    /\ build = bld
    /\ pc = "start"
    /\ i = 0
    /\ bboxes = <<>>
    /\ scores = <<>>
    /\ imgs = <<>>
    /\ results = <<>>
    /\ transformed = None
    /\ prev = None

\* One image, every score tensor; the confidence threshold and max_det varied
InitScores ==
    \E S \in [1..NumQueries -> ScoreRows], conf \in ConfVals, max_det \in 1..MaxDet :
        InitWith(MkTensor(1, <<S>>, DefaultBoxes(1)), <<DefaultShape(1)>>, 1,
                 conf, None, max_det, DefaultBuild, "list", "list", 4)

\* One image, score tensors over HighScoreVals; the class filter, the confidence
\* threshold and the tensor library's tie orders varied
InitFilter ==
    \E S \in [1..NumQueries -> HighScoreRows], conf \in ConfVals,
       classes \in ClassFilters \ {None}, tm \in TieVals, ts \in TieVals :
        InitWith(MkTensor(1, <<S>>, DefaultBoxes(1)), <<DefaultShape(1)>>, 1,
                 conf, classes, MaxDet, [max |-> tm, sort |-> ts], "list", "list", 4)

\* A batch of images: the boxes, the image shapes, the form of the original
\* images, the number of paths and the confidence threshold varied
InitBatch ==
    \E N \in 1..MaxImages :
        \E B \in [1..N -> BoxLists], shapes \in [1..N -> ShapeVals],
           otype \in {"list", "Tensor"}, npaths \in {N - 1, N}, conf \in ConfVals :
            InitWith(MkTensor(N, DefaultScores(N), B), shapes, npaths,
                     conf, None, MaxDet, DefaultBuild, "list", otype, 4)

\* A batch of images: the image shapes and the model input size varied
InitSizes ==
    \E N \in 1..MaxImages :
        \E shapes \in [1..N -> ShapeVals], imgsz \in ImgszVals :
            InitWith(MkTensor(N, DefaultScores(N), DefaultBoxes(N)), shapes, N,
                     0, None, MaxDet, DefaultBuild, "list", "list", imgsz)

Init == InitScores \/ InitFilter \/ InitBatch \/ InitSizes

\* For the runs that call postprocess twice: a batch whose first image has every
\* score tensor over HighScoreVals; the form of preds and the threshold varied
InitTwice ==
    \E N \in 1..MaxImages :
        \E S \in [1..NumQueries -> HighScoreRows], form \in Forms, conf \in ConfVals :
            InitWith(MkTensor(N, [k \in 1..N |-> IF k = 1 THEN S ELSE DefaultScores(N)[k]],
                              DefaultBoxes(N)),
                     [k \in 1..N |-> DefaultShape(k)], N,
                     conf, None, MaxDet, DefaultBuild, form, "list", 4)

\* Mutant: the last element of the list or tuple used
first_pred_last(p) ==
    IF p.type \notin {"list", "tuple"} THEN p.v
    ELSE IF p.v[Len(p.v)] # None THEN p.v[Len(p.v)] ELSE p.v[1]

(***************************************************************************)
(* postprocess, lines 53-57: the prediction tensor is preds itself or      *)
(* element 0 of the list or tuple.                                         *)
(***************************************************************************)
first_pred(p) ==
    LET lp == IF p.type \notin {"list", "tuple"} THEN <<p.v, None>> ELSE p.v
    IN lp[1]

\* postprocess, lines 59-60
local_orig_imgs(o) == IF o.type # "list" THEN convert_torch2numpy_batch(o.v) ELSE o.v

PreTransform ==
    /\ pc = "start"
    /\ transformed' = Some(pre_transform(self.imgsz, im))
    /\ pc' = "ready"
    /\ UNCHANGED <<self, im, preds, orig_imgs, build, i, bboxes, scores, imgs, results, prev>>

Postprocess_Enter ==
    /\ pc = "ready"
    /\ bboxes' = split_box(first_pred(preds))
    /\ scores' = split_score(first_pred(preds))
    /\ imgs' = local_orig_imgs(orig_imgs)
    /\ results' = <<>>
    /\ i' = 1
    /\ pc' = "loop"
    /\ UNCHANGED <<self, im, preds, orig_imgs, build, transformed, prev>>

\* Mutant: every result built from the first original image and the first path
Postprocess_Iter_first_img ==
    /\ pc = "loop"
    /\ i <= zip_len(bboxes, scores, imgs, self.batch[1])
    /\ results' = Append(results,
                         Results(imgs[1], self.batch[1][1], self.model.names,
                                 image_pred(bboxes[i], scores[i], imgs[1], self.args, build)))
    /\ i' = i + 1
    /\ UNCHANGED <<self, im, preds, orig_imgs, build, pc, bboxes, scores, imgs,
                   transformed, prev>>

\* Mutant: the boxes scaled in the storage of the prediction tensor itself
Postprocess_Iter_inplace ==
    /\ pc = "loop"
    /\ i <= zip_len(bboxes, scores, imgs, self.batch[1])
    /\ results' = Append(results,
                         Results(imgs[i], self.batch[1][i], self.model.names,
                                 image_pred(bboxes[i], scores[i], imgs[i], self.args, build)))
    /\ i' = i + 1
    /\ LET T == IF preds.type \in {"list", "tuple"} THEN preds.v[1] ELSE preds.v
           W == [T EXCEPT ![i] = [q \in 1..Len(T[i]) |->
                    <<T[i][q][1] * imgs[i].shape[2], T[i][q][2] * imgs[i].shape[1],
                      T[i][q][3] * imgs[i].shape[2], T[i][q][4] * imgs[i].shape[1]>>
                    \o SubSeq(T[i][q], 5, Len(T[i][q]))]]
       IN preds' = IF preds.type \in {"list", "tuple"}
                   THEN [preds EXCEPT !.v[1] = W] ELSE [preds EXCEPT !.v = W]
    /\ UNCHANGED <<self, im, orig_imgs, build, pc, bboxes, scores, imgs, transformed, prev>>

Postprocess_Iter ==
    /\ pc = "loop"
    /\ i <= zip_len(bboxes, scores, imgs, self.batch[1])
    /\ results' = Append(results,
                         Results(imgs[i], self.batch[1][i], self.model.names,
                                 image_pred(bboxes[i], scores[i], imgs[i], self.args, build)))
    /\ i' = i + 1
    /\ UNCHANGED <<self, im, preds, orig_imgs, build, pc, bboxes, scores, imgs,
                   transformed, prev>>

Postprocess_Return ==
    /\ pc = "loop"
    /\ i > zip_len(bboxes, scores, imgs, self.batch[1])
    /\ pc' = "done"
    /\ UNCHANGED <<self, im, preds, orig_imgs, build, i, bboxes, scores, imgs, results,
                   transformed, prev>>

\* The prediction tensor handed in: preds itself, or element 0 of the list or tuple
InT == IF preds.type = "Tensor" THEN preds.v ELSE preds.v[1]

\* A later call of postprocess on the same prediction tensor, passed in any form
Recall ==
    /\ pc = "done"
    /\ prev = None
    /\ prev' = Some([preds |-> preds, results |-> results])
    /\ \E form \in Forms : preds' = Wrap(form, InT)
    /\ pc' = "ready"
    /\ UNCHANGED <<self, im, orig_imgs, build, i, bboxes, scores, imgs, results, transformed>>

Next == PreTransform \/ Postprocess_Enter \/ Postprocess_Iter \/ Postprocess_Return

Spec == Init /\ [][Next]_vars

NextTwice == Next \/ Recall

SpecTwice == InitTwice /\ [][NextTwice]_vars

(***************************************************************************)
(* What the properties speak of, read off the inputs of postprocess.       *)
(***************************************************************************)
\* The number of images of the prediction tensor and of queries of image k
NImages == Len(InT)
NQ(k) == Len(InT[k])
\* The class scores of query q of image k, by class index 0..nd-5
QScore(k, q, c) == InT[k][q][c + 5]
QClasses(k, q) == 0..(Len(InT[k][q]) - 5)
\* The maximum class score of query q of image k
QMax(k, q) == CHOOSE m \in {QScore(k, q, c) : c \in QClasses(k, q)} :
                  \A c \in QClasses(k, q) : QScore(k, q, c) <= m
\* The classes of query q whose score is the maximum
QArgMax(k, q) == {c \in QClasses(k, q) : QScore(k, q, c) = QMax(k, q)}
\* Height and width of original image k
OH(k) == IF orig_imgs.type = "list" THEN orig_imgs.v[k].shape[1] ELSE orig_imgs.v[k].shape[2]
OW(k) == IF orig_imgs.type = "list" THEN orig_imgs.v[k].shape[2] ELSE orig_imgs.v[k].shape[3]
\* The normalised corners (x1, y1, x2, y2) of query q of image k
QX1(k, q) == InT[k][q][1] - InT[k][q][3] \div 2
QY1(k, q) == InT[k][q][2] - InT[k][q][4] \div 2
QX2(k, q) == InT[k][q][1] + InT[k][q][3] \div 2
QY2(k, q) == InT[k][q][2] + InT[k][q][4] \div 2
\* Row r is the box of query q of image k at the size of original image k
BoxFrom(r, k, q) ==
    /\ r[1] = QX1(k, q) * OW(k)
    /\ r[2] = QY1(k, q) * OH(k)
    /\ r[3] = QX2(k, q) * OW(k)
    /\ r[4] = QY2(k, q) * OH(k)
\* Row r is a detection of query q of image k: its box, its maximum score, a class of it
DetFrom(r, k, q) == BoxFrom(r, k, q) /\ r[5] = QMax(k, q) /\ r[6] \in QArgMax(k, q)
\* The boxes returned for image k, and whether query q is among them
Boxes(k) == results[k].boxes
Appears(k, q) == \E j \in DOMAIN Boxes(k) : DetFrom(Boxes(k)[j], k, q)
\* The queries of image k above the confidence threshold
AboveConf(k) == {q \in 1..NQ(k) : QMax(k, q) > self.args.conf}
\* The class reported for query q: the first or the last class of maximum score
QCls(k, q) ==
    IF build.max = "first" THEN CHOOSE c \in QArgMax(k, q) : \A d \in QArgMax(k, q) : c <= d
    ELSE CHOOSE c \in QArgMax(k, q) : \A d \in QArgMax(k, q) : c >= d
\* The queries of image k that pass the confidence and the class filter
Passing(k) ==
    {q \in AboveConf(k) :
        self.args.classes = None
        \/ \E n \in DOMAIN self.args.classes[1] : self.args.classes[1][n] = QCls(k, q)}
Min(a, b) == IF a <= b THEN a ELSE b
\* The maximum scores of the queries Q, largest first
RECURSIVE ScoresDesc(_, _)
ScoresDesc(k, Q) ==
    IF Q = {} THEN <<>>
    ELSE LET q == CHOOSE a \in Q : \A b \in Q : QMax(k, b) <= QMax(k, a)
         IN <<QMax(k, q)>> \o ScoresDesc(k, Q \ {q})
Done == pc = "done"

(***************************************************************************)
(* C1. Confidence filtering: a query appears among the boxes returned for  *)
(* its image only if its maximum class score is strictly greater than      *)
(* args.conf; and when args.classes is None and at most args.max_det       *)
(* queries are above the threshold, every query above it is returned.      *)
(***************************************************************************)
C1_ConfidenceFilter ==
    \A k \in DOMAIN results : \A q \in 1..NQ(k) :
        /\ Appears(k, q) => QMax(k, q) > self.args.conf
        /\ ( /\ self.args.classes = None
             /\ Cardinality(AboveConf(k)) <= self.args.max_det
             /\ QMax(k, q) > self.args.conf ) => Appears(k, q)

\* An image is done where one query scores exactly args.conf and is dropped and
\* another scores more and is returned, with no class filter and no truncation
C1_Witness ==
    /\ Done
    /\ self.args.classes = None
    /\ \E k \in DOMAIN results :
        /\ Cardinality(AboveConf(k)) <= self.args.max_det
        /\ \E q \in 1..NQ(k) : QMax(k, q) = self.args.conf /\ ~Appears(k, q)
        /\ \E q \in 1..NQ(k) : QMax(k, q) > self.args.conf /\ Appears(k, q)

(***************************************************************************)
(* C2. Class filtering: when args.classes is not None every returned box   *)
(* has a class index in args.classes and a score above args.conf; when     *)
(* args.classes is None no query is dropped because of its class: the      *)
(* boxes returned are as many as the queries above the threshold, up to    *)
(* args.max_det.                                                           *)
(***************************************************************************)
C2_ClassFilter ==
    \A k \in DOMAIN results :
        /\ self.args.classes # None =>
              \A j \in DOMAIN Boxes(k) :
                  /\ \E n \in DOMAIN self.args.classes[1] :
                         Boxes(k)[j][6] = self.args.classes[1][n]
                  /\ Boxes(k)[j][5] > self.args.conf
        /\ self.args.classes = None =>
              Len(Boxes(k)) = Min(self.args.max_det, Cardinality(AboveConf(k)))

\* An image is done under a class filter that dropped a query above the threshold
\* for its class and kept another query
C2_Witness ==
    /\ Done
    /\ self.args.classes # None
    /\ \E k \in DOMAIN results :
        /\ \E q \in AboveConf(k) : q \notin Passing(k) /\ ~Appears(k, q)
        /\ Len(Boxes(k)) > 0

(***************************************************************************)
(* C3. Coordinate rescaling: every box returned for image k is the xyxy    *)
(* box of a query of image k with x1 and x2 multiplied by the width and y1 *)
(* and y2 by the height of original image k, while its confidence and      *)
(* class are that query's maximum score and class index, not scaled.       *)
(***************************************************************************)
C3_Rescaling ==
    \A k \in DOMAIN results : \A j \in DOMAIN Boxes(k) :
        \E q \in 1..NQ(k) :
            /\ Boxes(k)[j][1] = QX1(k, q) * OW(k)
            /\ Boxes(k)[j][3] = QX2(k, q) * OW(k)
            /\ Boxes(k)[j][2] = QY1(k, q) * OH(k)
            /\ Boxes(k)[j][4] = QY2(k, q) * OH(k)
            /\ Boxes(k)[j][5] = QMax(k, q)
            /\ Boxes(k)[j][6] = QCls(k, q)

\* A box is returned for an image whose height and width differ and are not 1
C3_Witness ==
    /\ Done
    /\ \E k \in DOMAIN results :
        /\ Len(Boxes(k)) > 0
        /\ OH(k) # OW(k) /\ OH(k) > 1 /\ OW(k) > 1
        /\ Boxes(k)[1][1] # Boxes(k)[1][2]

(***************************************************************************)
(* C4. One Results object per image, in input order: when postprocess has  *)
(* returned, the list is as long as the shortest of predictions, original  *)
(* images and paths (the number of images when they agree); result k holds *)
(* original image k, path k, the names of the model and boxes that all     *)
(* come from the queries of image k; an image with no query passing the    *)
(* filters has a result with zero boxes.                                   *)
(***************************************************************************)
C4_OnePerImage ==
    Done =>
        /\ Len(results) = Min(Min(NImages, Len(orig_imgs.v)), Len(self.batch[1]))
        /\ (NImages = Len(orig_imgs.v) /\ NImages = Len(self.batch[1])) =>
               Len(results) = NImages
        /\ \A k \in DOMAIN results :
            /\ results[k].path = self.batch[1][k]
            /\ results[k].orig_img.id = orig_imgs.v[k].id
            /\ results[k].orig_img.shape = <<OH(k), OW(k), 3>>
            /\ results[k].names = self.model.names
            /\ Passing(k) = {} => Boxes(k) = <<>>
            /\ \A j \in DOMAIN Boxes(k) : \E q \in Passing(k) : DetFrom(Boxes(k)[j], k, q)

\* A batch of two images is done, one with no box and one with boxes
C4_Witness ==
    /\ Done
    /\ NImages >= 2
    /\ Len(results) = NImages
    /\ \E k \in DOMAIN results : Boxes(k) = <<>>
    /\ \E k \in DOMAIN results : Len(Boxes(k)) > 0

(***************************************************************************)
(* C5. pre_transform returns one image per input image, in the same order, *)
(* each of the square size imgsz x imgsz whatever the size of the input:   *)
(* the input is resized to the whole of it, with no border added.          *)
(***************************************************************************)
C5_PreTransform ==
    transformed # None =>
        /\ Len(transformed[1]) = Len(im)
        /\ \A k \in DOMAIN im :
            /\ transformed[1][k].id = im[k].id
            /\ transformed[1][k].shape = <<self.imgsz, self.imgsz, im[k].shape[3]>>
            /\ transformed[1][k].resized = <<self.imgsz, self.imgsz>>
            /\ transformed[1][k].border = <<0, 0, 0, 0>>

\* pre_transform has returned for two images of different, non-square shapes
C5_Witness ==
    /\ transformed # None
    /\ Len(im) >= 2
    /\ im[1].shape # im[2].shape
    /\ im[1].shape[1] # im[1].shape[2]
    /\ im[1].shape[1] # self.imgsz

(***************************************************************************)
(* C7. max_det truncation: the boxes returned for an image are as many as  *)
(* the queries that pass the confidence and class filters, up to           *)
(* args.max_det, and no query that passed and was dropped has a confidence *)
(* strictly greater than that of a returned box.                           *)
(***************************************************************************)
C7_MaxDet ==
    \A k \in DOMAIN results :
        /\ Len(Boxes(k)) = Min(self.args.max_det, Cardinality(Passing(k)))
        /\ \A q \in Passing(k) :
               ~Appears(k, q) => \A j \in DOMAIN Boxes(k) : QMax(k, q) <= Boxes(k)[j][5]

\* An image is done with more passing queries than max_det, one of them dropped
C7_Witness ==
    /\ Done
    /\ \E k \in DOMAIN results :
        /\ Cardinality(Passing(k)) > self.args.max_det
        /\ Len(Boxes(k)) = self.args.max_det
        /\ \E q \in Passing(k) : ~Appears(k, q)

(***************************************************************************)
(* C8. Ordering: the boxes of every result are in non-increasing order of  *)
(* confidence, and the sort precedes the truncation: the confidences       *)
(* returned are the first args.max_det of the confidences of all passing   *)
(* queries in non-increasing order.                                        *)
(***************************************************************************)
C8_Ordering ==
    \A k \in DOMAIN results :
        /\ \A j \in 1..(Len(Boxes(k)) - 1) : Boxes(k)[j][5] >= Boxes(k)[j + 1][5]
        /\ [j \in 1..Len(Boxes(k)) |-> Boxes(k)[j][5]]
               = Take(ScoresDesc(k, Passing(k)), self.args.max_det)

\* An image is done where truncation dropped a passing query that precedes, in the
\* prediction tensor, a returned query of greater confidence
C8_Witness ==
    /\ Done
    /\ \E k \in DOMAIN results :
        \E q \in Passing(k) :
            /\ ~Appears(k, q)
            /\ \E q2 \in Passing(k) : q2 > q /\ QMax(k, q2) > QMax(k, q) /\ Appears(k, q2)

(***************************************************************************)
(* C9. Per-query class and confidence: the boxes returned for an image     *)
(* come from distinct queries of it, each box with the first four values   *)
(* of its query as the box, the maximum of the nd - 4 class scores as the  *)
(* confidence and, as the class, an index in 0..nd-5 whose score is that   *)
(* maximum: a query yields at most one detection.                          *)
(***************************************************************************)
C9_PerQuery ==
    \A k \in DOMAIN results :
        \E f \in [DOMAIN Boxes(k) -> 1..NQ(k)] :
            /\ \A a, b \in DOMAIN Boxes(k) : a # b => f[a] # f[b]
            /\ \A j \in DOMAIN Boxes(k) :
                /\ BoxFrom(Boxes(k)[j], k, f[j])
                /\ Boxes(k)[j][5] = QMax(k, f[j])
                /\ Boxes(k)[j][6] \in QClasses(k, f[j])
                /\ QScore(k, f[j], Boxes(k)[j][6]) = Boxes(k)[j][5]

\* A query with two classes above the threshold is returned, as one box, with a
\* class other than class 0
C9_Witness ==
    /\ Done
    /\ \E k \in DOMAIN results : \E q \in 1..NQ(k) :
        /\ Cardinality({c \in QClasses(k, q) : QScore(k, q, c) > self.args.conf}) >= 2
        /\ Cardinality({j \in DOMAIN Boxes(k) : DetFrom(Boxes(k)[j], k, q)}) = 1
        /\ QCls(k, q) # 0

(***************************************************************************)
(* C6. The two operations are stateless: no step of pre_transform or       *)
(* postprocess changes the predictor (args, batch, imgsz, model), the      *)
(* images handed in or the prediction tensor, and a second call of         *)
(* postprocess on the same inputs returns the same results.                *)
(***************************************************************************)
C6_Stateless ==
    /\ [][ /\ self' = self
           /\ im' = im
           /\ orig_imgs' = orig_imgs
           /\ InT' = InT ]_vars
    /\ [](Done /\ prev # None /\ prev[1].preds = preds => results = prev[1].results)

\* A second call on the same preds is done, with boxes scaled by more than 1
C6_Witness ==
    /\ Done
    /\ prev # None
    /\ prev[1].preds = preds
    /\ transformed # None
    /\ \E k \in DOMAIN results : Len(Boxes(k)) > 0 /\ OH(k) > 1 /\ OW(k) > 1

(***************************************************************************)
(* C10. Input-shape branching: the results for a bare tensor T are those   *)
(* for [T, None], and a second element beside T has no influence: two      *)
(* calls whose preds differ in form or in the second element, over the     *)
(* same tensor, return the same results.                                   *)
(***************************************************************************)
C10_InputForms ==
    (Done /\ prev # None /\ prev[1].preds # preds) => results = prev[1].results

\* A call on the bare tensor and a call on a tuple with a second element beside it
\* are both done, with boxes returned
C10_Witness ==
    /\ Done
    /\ prev # None
    /\ {prev[1].preds.type, preds.type} = {"Tensor", "tuple"}
    /\ \E k \in DOMAIN results : Len(Boxes(k)) > 0

====
